---- MODULE Spec2Model ----
(***************************************************************************)
(* MPIN strength validator (src/main.py, class MPINValidator).             *)
(*                                                                         *)
(* A string is a sequence of one-character strings; an explanation text is *)
(* a sequence of tokens (words, punctuation and the characters of the      *)
(* interpolated values), so that Python's `key in explanation` is a        *)
(* contiguous, case-sensitive search of the key's tokens.                  *)
(***************************************************************************)
EXTENDS Integers, Sequences, FiniteSets, TLC

VARIABLES mpin, dob, spouse_dob, anniversary, pc, result

vars == <<mpin, dob, spouse_dob, anniversary, pc, result>>

(***************************************************************************)
(* Characters.  str.isdigit() is true of the ASCII digits and of other     *)
(* Unicode digits: U+0663 (ARABIC-INDIC DIGIT THREE) is a decimal digit    *)
(* that int() reads as 3, U+00B2 (SUPERSCRIPT TWO) is a digit that int()   *)
(* rejects with ValueError.                                                *)
(***************************************************************************)
AsciiDigits == <<"0", "1", "2", "3", "4", "5", "6", "7", "8", "9">>

AsciiDigitSet == {AsciiDigits[i] : i \in 1..Len(AsciiDigits)}

isdigit(s) ==
    /\ Len(s) > 0
    /\ \A i \in 1..Len(s) : s[i] \in AsciiDigitSet \cup {"U+0663", "U+00B2"}

int_ok(c) == c \in AsciiDigitSet \cup {"U+0663"}

int(c) ==
    IF c = "U+0663" THEN 3
    ELSE (CHOOSE i \in 1..Len(AsciiDigits) : AsciiDigits[i] = c) - 1

(***************************************************************************)
(* String helpers: s[::-1], `pat in s`, set(s), '%02d' and '%04d'.         *)
(***************************************************************************)
Reverse(s) == [i \in 1..Len(s) |-> s[Len(s) + 1 - i]]

Contains(pat, s) ==
    \E i \in 0..(Len(s) - Len(pat)) : SubSeq(s, i + 1, i + Len(pat)) = pat

CharSet(s) == {s[i] : i \in 1..Len(s)}

Pad2(n) == <<AsciiDigits[((n \div 10) % 10) + 1], AsciiDigits[(n % 10) + 1]>>

Pad4(n) == Pad2(n \div 100) \o Pad2(n % 100)

RECURSIVE Flatten(_)
Flatten(ss) == IF ss = <<>> THEN <<>> ELSE Head(ss) \o Flatten(Tail(ss))

RECURSIVE SumSeq(_)
SumSeq(ns) == IF ns = <<>> THEN 0 ELSE Head(ns) + SumSeq(Tail(ns))

Max(a, b) == IF a >= b THEN a ELSE b

RECURSIVE Gcd(_, _)
Gcd(a, b) == IF b = 0 THEN a ELSE Gcd(b, a % b)

(***************************************************************************)
(* Keypad detector.                                                        *)
(***************************************************************************)
horizontal_patterns == << <<"1", "2", "3">>, <<"4", "5", "6">>, <<"7", "8", "9">> >>

vertical_patterns == << <<"1", "4", "7">>, <<"2", "5", "8">>, <<"3", "6", "9">> >>

diagonal_patterns == << <<"1", "5", "9">>, <<"3", "5", "7">> >>

corner_digits == {"1", "3", "7", "9"}

\* One iteration of a pattern loop: the plain finding, then the doubled one.
KeypadLine(tag, Word, word, pattern, s) ==
    (IF Contains(pattern, s) \/ Contains(Reverse(pattern), s)
       THEN << <<tag, <<Word, "keypad", "pattern", "(">> \o pattern \o <<")">> >> >>
       ELSE <<>>)
    \o
    (IF Contains(pattern \o pattern, s)
          \/ Contains(Reverse(pattern) \o Reverse(pattern), s)
       THEN << <<tag, <<"Repeated", word, "keypad", "pattern", "(">>
                       \o pattern \o <<")">> >> >>
       ELSE <<>>)

KeypadFamily(tag, Word, word, patterns, s) ==
    Flatten([k \in 1..Len(patterns) |-> KeypadLine(tag, Word, word, patterns[k], s)])

\* sorted(list(mpin_digits)) joined with ', '
SortedCorners(cs) ==
    Flatten([k \in 1..Len(AsciiDigits) |->
                IF AsciiDigits[k] \in cs THEN <<AsciiDigits[k]>> ELSE <<>>])

CornerReasons(s) ==
    LET mpin_digits == CharSet(s)
        n == Cardinality(mpin_digits)
    IN  IF ~(mpin_digits \subseteq corner_digits) THEN <<>>
        ELSE IF n = 4
          THEN << <<"KEYPAD_CORNER",
                    <<"Common", "keypad", "pattern", "using", "all", "four", "corners">> >> >>
        ELSE IF n = 3
          THEN << <<"KEYPAD_CORNER",
                    <<"Common", "keypad", "pattern", "using", "three", "corners:">>
                       \o SortedCorners(mpin_digits) >> >>
        ELSE IF n = 2
          THEN << <<"KEYPAD_CORNER",
                    <<"Common", "keypad", "pattern", "using", "two", "corners:">>
                       \o SortedCorners(mpin_digits) >> >>
        ELSE <<>>

is_keypad_pattern(s) ==
    KeypadFamily("KEYPAD_HORIZONTAL", "Horizontal", "horizontal", horizontal_patterns, s)
    \o KeypadFamily("KEYPAD_VERTICAL", "Vertical", "vertical", vertical_patterns, s)
    \o KeypadFamily("KEYPAD_DIAGONAL", "Diagonal", "diagonal", diagonal_patterns, s)
    \o CornerReasons(s)

(***************************************************************************)
(* Structural detectors.  Each returns the sequence of its findings (empty *)
(* when the Python function returns False).                                *)
(***************************************************************************)
Digits(s) == [i \in 1..Len(s) |-> int(s[i])]

\* is_arithmetic_progression with the first difference taken the other way round.
is_arithmetic_progression_swapped(s) ==
    LET digits == Digits(s)
        diff == digits[1] - digits[2]
    IN  IF Len(digits) < 2 THEN <<>>
        ELSE IF \A i \in 2..Len(digits) : digits[i] - digits[i - 1] = diff
          THEN << <<"Arithmetic", "progression", "with", "difference", ToString(diff)>> >>
        ELSE <<>>

is_arithmetic_progression(s) ==
    LET digits == Digits(s)
        diff == digits[2] - digits[1]
    IN  IF Len(digits) < 2 THEN <<>>
        ELSE IF \A i \in 2..Len(digits) : digits[i] - digits[i - 1] = diff
          THEN << <<"Arithmetic", "progression", "with", "difference", ToString(diff)>> >>
        ELSE <<>>

\* Lines 96-100: real-valued division; a / b == c / d is decided on the exact
\* quotients (a * d = c * b), and all() stops at the first False.  A zero
\* divisor raises ZeroDivisionError.  The ratio is printed as a reduced fraction.
RECURSIVE GeometricAll(_, _, _)
GeometricAll(digits, i, outcome) ==
    IF i > Len(digits) \/ outcome # "true" THEN outcome
    ELSE IF digits[i - 1] = 0 THEN "raise"
    ELSE IF digits[i] * digits[1] = digits[2] * digits[i - 1]
      THEN GeometricAll(digits, i + 1, "true")
    ELSE "false"

GeometricBody(digits) ==
    IF digits[1] = 0 THEN [raised |-> TRUE, reasons |-> <<>>]
    ELSE LET outcome == GeometricAll(digits, 2, "true")
             g == Gcd(digits[2], digits[1])
         IN  IF outcome = "raise" THEN [raised |-> TRUE, reasons |-> <<>>]
             ELSE IF outcome = "true"
               THEN [raised |-> FALSE,
                     reasons |-> << <<"Geometric", "progression", "with", "ratio",
                                      ToString(digits[2] \div g), "/",
                                      ToString(digits[1] \div g)>> >>]
             ELSE [raised |-> FALSE, reasons |-> <<>>]

\* is_geometric_progression without the `0 in digits` guard.
is_geometric_progression_unguarded(s) ==
    LET digits == Digits(s)
    IN  IF Len(digits) < 2
          THEN [raised |-> FALSE, reasons |-> <<>>]
          ELSE GeometricBody(digits)

is_geometric_progression(s) ==
    LET digits == Digits(s)
    IN  IF Len(digits) < 2 \/ (\E i \in 1..Len(digits) : digits[i] = 0)
          THEN [raised |-> FALSE, reasons |-> <<>>]
          ELSE GeometricBody(digits)

is_repetitive(s) ==
    IF Cardinality(CharSet(s)) = 1
      THEN << <<"All", "digits", "are", "same", "(", s[1], ")">> >>
      ELSE <<>>

is_ascending(s) ==
    IF \A i \in 1..(Len(s) - 1) : int(s[i]) <= int(s[i + 1])
      THEN << <<"Digits", "are", "in", "ascending", "order">> >>
      ELSE <<>>

is_descending(s) ==
    IF \A i \in 1..(Len(s) - 1) : int(s[i]) >= int(s[i + 1])
      THEN << <<"Digits", "are", "in", "descending", "order">> >>
      ELSE <<>>

\* s * n
RECURSIVE Repeat(_, _)
Repeat(s, n) == IF n <= 0 THEN <<>> ELSE s \o Repeat(s, n - 1)

\* [mpin[i:i+2] for i in range(0, len(mpin)-1, 2)]
Pairs(s) == [k \in 1..(Len(s) \div 2) |-> SubSeq(s, 2 * k - 1, 2 * k)]

RepeatedPair(s) ==
    IF Len(s) >= 4 /\ Cardinality({Pairs(s)[k] : k \in 1..Len(Pairs(s))}) = 1
      THEN << <<"REPEATED_PAIR",
                <<"Repeated", "pair", "pattern", "(">> \o Pairs(s)[1] \o <<")">> >> >>
      ELSE <<>>

RepeatedSequence(s) ==
    IF Len(s) >= 4
      THEN Flatten([i \in 1..(Len(s) \div 2) |->
               IF Repeat(SubSeq(s, 1, i), Len(s) \div i) = s
                 THEN << <<"REPEATED_SEQUENCE",
                           <<"Repeated", "sequence", "(">> \o SubSeq(s, 1, i) \o <<")">> >> >>
                 ELSE <<>>])
      ELSE <<>>

is_common_pattern(s) == RepeatedPair(s) \o RepeatedSequence(s) \o is_keypad_pattern(s)

(***************************************************************************)
(* Dates.  A date argument is None or the empty string (kind "none"), a    *)
(* text that is not of the form d-m-Y (kind "text"), or a text d-m-Y of    *)
(* three numbers (kind "dmy"); strptime accepts the last when the numbers  *)
(* are a calendar date.                                                    *)
(***************************************************************************)
NoDate == [kind |-> "none", d |-> 0, m |-> 0, y |-> 0]

TextDate == [kind |-> "text", d |-> 0, m |-> 0, y |-> 0]

Dmy(d, m, y) == [kind |-> "dmy", d |-> d, m |-> m, y |-> y]

IsLeap(y) == (y % 4 = 0 /\ y % 100 # 0) \/ y % 400 = 0

DaysInMonth(m, y) ==
    IF m = 2 THEN (IF IsLeap(y) THEN 29 ELSE 28)
    ELSE IF m \in {4, 6, 9, 11} THEN 30 ELSE 31

\* datetime.strptime(date_str, '%d-%m-%Y') succeeds
strptime_ok(date_str) ==
    /\ date_str.kind = "dmy"
    /\ date_str.y \in 1..9999
    /\ date_str.m \in 1..12
    /\ date_str.d \in 1..DaysInMonth(date_str.m, date_str.y)

\* `if dob:`
Truthy(date_str) == date_str.kind # "none"

\* The text of the argument, as interpolated into an explanation.
DateText(date_str) ==
    Pad2(date_str.d) \o <<"-">> \o Pad2(date_str.m) \o <<"-">> \o Pad4(date_str.y)

\* extract_date_patterns whose first pattern is month+day again.
extract_date_patterns_no_dm(date_str) ==
    IF ~strptime_ok(date_str) THEN <<>>
    ELSE LET d == Pad2(date_str.d)
             m == Pad2(date_str.m)
             y == Pad2(date_str.y % 100)
         IN  << m \o d, m \o d, y \o m, m \o y, y \o d, d \o y,
                d \o m \o y, y \o m \o d, m \o d \o y, y \o d \o m >>

extract_date_patterns(date_str) ==
    IF ~strptime_ok(date_str) THEN <<>>
    ELSE LET d == Pad2(date_str.d)
             m == Pad2(date_str.m)
             y == Pad2(date_str.y % 100)
         IN  << d \o m, m \o d, y \o m, m \o y, y \o d, d \o y,
                d \o m \o y, y \o m \o d, m \o d \o y, y \o d \o m >>

\* extract_year_patterns with the 2-digit year first.
extract_year_patterns_short_first(date_str) ==
    IF ~strptime_ok(date_str) THEN <<>>
    ELSE << Pad2(date_str.y % 100), Pad4(date_str.y) >>

extract_year_patterns(date_str) ==
    IF ~strptime_ok(date_str) THEN <<>>
    ELSE << Pad4(date_str.y), Pad2(date_str.y % 100) >>

RECURSIVE SubsequenceIdx(_, _, _, _)
SubsequenceIdx(pattern, s, k, pattern_idx) ==
    IF k > Len(s) THEN pattern_idx
    ELSE IF pattern_idx < Len(pattern) /\ s[k] = pattern[pattern_idx + 1]
      THEN SubsequenceIdx(pattern, s, k + 1, pattern_idx + 1)
    ELSE SubsequenceIdx(pattern, s, k + 1, pattern_idx)

is_subsequence(pattern, s) ==
    IF Len(pattern) <= 1 THEN FALSE
    ELSE SubsequenceIdx(pattern, s, 1, 0) = Len(pattern)

\* The 18 combined patterns of two dates, as lines 202-235 build them.
CombinedPatterns(dob1, dob2) ==
    LET d1 == Pad2(dob1.d)
        m1 == Pad2(dob1.m)
        y1 == Pad2(dob1.y % 100)
        d2 == Pad2(dob2.d)
        m2 == Pad2(dob2.m)
        y2 == Pad2(dob2.y % 100)
    IN  << d1 \o d2, d2 \o d1, m1 \o m2, m2 \o m1,
           d1 \o m2, m2 \o d1, m1 \o d2, d2 \o m1,
           y1 \o y2, y2 \o y1, d1 \o y2, y2 \o d1,
           m1 \o y2, y2 \o m1, d2 \o y1, y1 \o d2,
           m2 \o y1, y1 \o m2 >>

\* extract_combined_date_patterns that takes the fields of the second date
\* without checking that it is a calendar date.
extract_combined_date_patterns_unchecked(dob1, dob2) ==
    IF ~strptime_ok(dob1) THEN <<>>
    ELSE IF ~Truthy(dob2) THEN <<>>
    ELSE IF dob2.kind # "dmy" THEN <<>>
    ELSE CombinedPatterns(dob1, dob2)

\* extract_combined_date_patterns without the pattern day2+day1.
extract_combined_date_patterns_one_order(dob1, dob2) ==
    IF ~strptime_ok(dob1) THEN <<>>
    ELSE IF ~Truthy(dob2) THEN <<>>
    ELSE IF ~strptime_ok(dob2) THEN <<>>
    ELSE << Pad2(dob1.d) \o Pad2(dob2.d) >>
         \o Tail(Tail(CombinedPatterns(dob1, dob2)))

extract_combined_date_patterns(dob1, dob2) ==
    IF ~strptime_ok(dob1) THEN <<>>
    ELSE IF ~Truthy(dob2) THEN <<>>
    ELSE IF ~strptime_ok(dob2) THEN <<>>
    ELSE CombinedPatterns(dob1, dob2)

(***************************************************************************)
(* The finding map: a function from category names to sequences of         *)
(* explanations.  reasons[k] = v overwrites.                               *)
(***************************************************************************)
EmptyReasons == <<>>

\* reasons[category] += explanations instead of the assignment.
PutAppend(reasons, category, explanations) ==
    (category :> ((IF category \in DOMAIN reasons THEN reasons[category] ELSE <<>>)
                  \o explanations)) @@ reasons

Put(reasons, category, explanations) == (category :> explanations) @@ reasons

NoMatch == [kind |-> "none", pattern |-> <<>>]

\* for pattern in patterns: exact match -> break; subsequence -> break
RECURSIVE FirstMatch(_, _, _, _)
FirstMatch(patterns, s, k, with_subsequence) ==
    IF k > Len(patterns) THEN NoMatch
    ELSE IF Len(patterns[k]) = Len(s) /\ patterns[k] = s
      THEN [kind |-> "exact", pattern |-> patterns[k]]
    ELSE IF with_subsequence /\ is_subsequence(patterns[k], s)
      THEN [kind |-> "subsequence", pattern |-> patterns[k]]
    ELSE FirstMatch(patterns, s, k + 1, with_subsequence)

\* One `if <date>:` block of validate_mpin: the year loop, then the date loop.
DemographicBlock(reasons, category, owner, year_noun, date_noun, year_sub, date_str, s) ==
    LET ym == FirstMatch(extract_year_patterns(date_str), s, 1, year_sub)
        dm == FirstMatch(extract_date_patterns(date_str), s, 1, TRUE)
        text == <<"(">> \o DateText(date_str) \o <<")">>
        r1 == IF ym.kind = "exact"
                THEN Put(reasons, category,
                         << <<category, ":", "Match", "with">> \o owner \o year_noun \o text >>)
              ELSE IF ym.kind = "subsequence"
                THEN Put(reasons, category,
                         << <<category, ":", "Contains", "subsequence", "from">>
                            \o owner \o year_noun \o text >>)
              ELSE reasons
    IN  IF dm.kind = "exact"
          THEN Put(r1, category,
                   << <<category, ":", "Match", "with">> \o owner \o date_noun \o text >>)
        ELSE IF dm.kind = "subsequence"
          THEN Put(r1, category,
                   << <<category, ":", "Contains", "subsequence", "from">>
                      \o owner \o date_noun \o text >>)
        ELSE r1

SelfBlock(reasons, date_str, s) ==
    IF ~Truthy(date_str) THEN reasons
    ELSE DemographicBlock(reasons, "DEMOGRAPHIC_DOB_SELF", <<"your">>,
                          <<"birth", "year">>, <<"date", "of", "birth">>,
                          TRUE, date_str, s)

SpouseBlock(reasons, date_str, s) ==
    IF ~Truthy(date_str) THEN reasons
    ELSE DemographicBlock(reasons, "DEMOGRAPHIC_DOB_SPOUSE", <<"spouse's">>,
                          <<"birth", "year">>, <<"date", "of", "birth">>,
                          TRUE, date_str, s)

AnniversaryBlock(reasons, date_str, s) ==
    IF ~Truthy(date_str) THEN reasons
    ELSE DemographicBlock(reasons, "DEMOGRAPHIC_ANNIVERSARY", <<"wedding">>,
                          <<"anniversary", "year">>, <<"anniversary", "date">>,
                          FALSE, date_str, s)

\* Lines 293-313: the text of an exact combined match, chosen by the value of
\* the matching pattern.
CombinedExact(pattern, date1_type, date1, date2_type, date2) ==
    LET d1 == Pad2(date1.d)
        m1 == Pad2(date1.m)
        d2 == Pad2(date2.d)
        m2 == Pad2(date2.m)
        Part(what, type, value) == <<what, "from", type, "DOB">> \o value
        Two(a, b) == <<"DEMOGRAPHIC_COMBINED", ":", "Match", "with", "combined",
                       "pattern", "(">> \o a \o <<"+">> \o b \o <<")">>
    IN  IF pattern = d1 \o d2
          THEN Two(Part("day", date1_type, d1), Part("day", date2_type, d2))
        ELSE IF pattern = d2 \o d1
          THEN Two(Part("day", date2_type, d2), Part("day", date1_type, d1))
        ELSE IF pattern = d1 \o m2
          THEN Two(Part("day", date1_type, d1), Part("month", date2_type, m2))
        ELSE IF pattern = m2 \o d1
          THEN Two(Part("month", date2_type, m2), Part("day", date1_type, d1))
        ELSE IF pattern = m1 \o d2
          THEN Two(Part("month", date1_type, m1), Part("day", date2_type, d2))
        ELSE IF pattern = d2 \o m1
          THEN Two(Part("day", date2_type, d2), Part("month", date1_type, m1))
        ELSE <<"DEMOGRAPHIC_COMBINED", ":", "Match", "with", "combined", "pattern",
               "from", date1_type, "and", date2_type, "DOBs">>

\* The body of the double loop for one pair of dates.
CombinedPair(reasons, entry1, entry2, s) ==
    LET cm == FirstMatch(extract_combined_date_patterns(entry1[2], entry2[2]), s, 1, TRUE)
    IN  IF cm.kind = "exact"
          THEN Put(reasons, "DEMOGRAPHIC_COMBINED",
                   << CombinedExact(cm.pattern, entry1[1], entry1[2], entry2[1], entry2[2]) >>)
        ELSE IF cm.kind = "subsequence"
          THEN Put(reasons, "DEMOGRAPHIC_COMBINED",
                   << <<"DEMOGRAPHIC_COMBINED", ":", "Contains", "subsequence", "from",
                        "combined", entry1[1], "and", entry2[1], "DOB", "pattern">> >>)
        ELSE reasons

\* dates = [] ; if dob: dates.append(('self', dob)) ; ...
\* dates = [('anniversary', anniversary)] instead of the append.
DateListReset(d_self, d_spouse, d_anniversary) ==
    IF Truthy(d_anniversary) THEN << <<"anniversary", d_anniversary>> >>
    ELSE (IF Truthy(d_self) THEN << <<"self", d_self>> >> ELSE <<>>)
         \o (IF Truthy(d_spouse) THEN << <<"spouse", d_spouse>> >> ELSE <<>>)

DateList(d_self, d_spouse, d_anniversary) ==
    (IF Truthy(d_self) THEN << <<"self", d_self>> >> ELSE <<>>)
    \o (IF Truthy(d_spouse) THEN << <<"spouse", d_spouse>> >> ELSE <<>>)
    \o (IF Truthy(d_anniversary) THEN << <<"anniversary", d_anniversary>> >> ELSE <<>>)

\* for i in range(len(dates)): for j in range(i + 1, len(dates)): ...
\* The double loop leaving at the first pair that stored a finding.
RECURSIVE CombinedLoopFirstWins(_, _, _, _, _)
CombinedLoopFirstWins(reasons, dates, i, j, s) ==
    IF i > Len(dates) \/ "DEMOGRAPHIC_COMBINED" \in DOMAIN reasons THEN reasons
    ELSE IF j > Len(dates) THEN CombinedLoopFirstWins(reasons, dates, i + 1, i + 2, s)
    ELSE CombinedLoopFirstWins(CombinedPair(reasons, dates[i], dates[j], s),
                               dates, i, j + 1, s)

RECURSIVE CombinedLoop(_, _, _, _, _)
CombinedLoop(reasons, dates, i, j, s) ==
    IF i > Len(dates) THEN reasons
    ELSE IF j > Len(dates) THEN CombinedLoop(reasons, dates, i + 1, i + 2, s)
    ELSE CombinedLoop(CombinedPair(reasons, dates[i], dates[j], s), dates, i, j + 1, s)

(***************************************************************************)
(* Scoring.                                                                *)
(***************************************************************************)
deductions ==
    [k \in {"REPETITIVE", "ASCENDING", "DESCENDING", "ARITHMETIC", "GEOMETRIC",
            "KEYPAD_HORIZONTAL", "KEYPAD_VERTICAL", "KEYPAD_DIAGONAL", "KEYPAD_CORNER",
            "REPEATED_PAIR", "REPEATED_SEQUENCE", "DEMOGRAPHIC_DOB_SELF",
            "DEMOGRAPHIC_DOB_SPOUSE", "DEMOGRAPHIC_ANNIVERSARY", "DEMOGRAPHIC_COMBINED"} |->
        CASE k = "ARITHMETIC" -> 40
          [] k = "GEOMETRIC" -> 10
          [] k \in {"DEMOGRAPHIC_DOB_SELF", "DEMOGRAPHIC_DOB_SPOUSE",
                    "DEMOGRAPHIC_ANNIVERSARY"} -> 40
          [] k = "DEMOGRAPHIC_COMBINED" -> 20
          [] OTHER -> 35]

\* Lines 411-433: the texts looked for in an explanation, in the order of the
\* if/elif chain, each with the entry of the table it charges.
CommonKeysMiscased ==
    << << <<"Arithmetic", "progression">>, "ARITHMETIC" >>,
       << <<"Geometric", "progression">>, "GEOMETRIC" >>,
       << <<"All", "digits", "are", "same">>, "REPETITIVE" >>,
       << <<"Digits", "are", "in", "ascending", "order">>, "ASCENDING" >>,
       << <<"Digits", "are", "in", "descending", "order">>, "DESCENDING" >>,
       << <<"Repeated", "pair", "pattern">>, "REPEATED_PAIR" >>,
       << <<"Repeated", "sequence">>, "REPEATED_SEQUENCE" >>,
       << <<"Horizontal", "keypad", "pattern">>, "KEYPAD_HORIZONTAL" >>,
       << <<"Vertical", "keypad", "pattern">>, "KEYPAD_VERTICAL" >>,
       << <<"diagonal", "keypad", "pattern">>, "KEYPAD_DIAGONAL" >>,
       << <<"Common", "keypad", "pattern", "using">>, "KEYPAD_CORNER" >> >>

CommonKeys ==
    << << <<"Arithmetic", "progression">>, "ARITHMETIC" >>,
       << <<"Geometric", "progression">>, "GEOMETRIC" >>,
       << <<"All", "digits", "are", "same">>, "REPETITIVE" >>,
       << <<"Digits", "are", "in", "ascending", "order">>, "ASCENDING" >>,
       << <<"Digits", "are", "in", "descending", "order">>, "DESCENDING" >>,
       << <<"Repeated", "pair", "pattern">>, "REPEATED_PAIR" >>,
       << <<"Repeated", "sequence">>, "REPEATED_SEQUENCE" >>,
       << <<"Horizontal", "keypad", "pattern">>, "KEYPAD_HORIZONTAL" >>,
       << <<"Vertical", "keypad", "pattern">>, "KEYPAD_VERTICAL" >>,
       << <<"Diagonal", "keypad", "pattern">>, "KEYPAD_DIAGONAL" >>,
       << <<"Common", "keypad", "pattern", "using">>, "KEYPAD_CORNER" >> >>

\* The first branch of the chain whose text is in the explanation; no branch
\* adds nothing.
RECURSIVE CommonChain(_, _)
CommonChain(explanation, k) ==
    IF k > Len(CommonKeys) THEN 0
    ELSE IF Contains(CommonKeys[k][1], explanation) THEN deductions[CommonKeys[k][2]]
    ELSE CommonChain(explanation, k + 1)

CommonDeduction(explanation) == CommonChain(explanation, 1)

\* Lines 435-449
DemographicDeduction(reason, explanation) ==
    LET year_text == \/ Contains(<<"birth", "year">>, explanation)
                     \/ Contains(<<"anniversary", "year">>, explanation)
    IN  IF Contains(<<"Match", "with">>, explanation)
          THEN IF year_text THEN 20
               ELSE IF reason = "DEMOGRAPHIC_COMBINED" THEN deductions["DEMOGRAPHIC_COMBINED"]
               ELSE deductions[reason]
        ELSE IF Contains(<<"Contains", "subsequence">>, explanation)
          THEN IF year_text THEN 5
               ELSE IF reason = "DEMOGRAPHIC_COMBINED" THEN 5
               ELSE 10
        ELSE 0

\* reason.startswith('DEMOGRAPHIC_')
DemographicCategories ==
    {"DEMOGRAPHIC_DOB_SELF", "DEMOGRAPHIC_DOB_SPOUSE", "DEMOGRAPHIC_ANNIVERSARY",
     "DEMOGRAPHIC_COMBINED"}

CategoryDeduction(reason, explanations) ==
    IF reason = "COMMON_PATTERN"
      THEN SumSeq([k \in 1..Len(explanations) |-> CommonDeduction(explanations[k])])
    ELSE IF reason \in DemographicCategories
      THEN SumSeq([k \in 1..Len(explanations) |->
                      DemographicDeduction(reason, explanations[k])])
    ELSE IF reason \in DOMAIN deductions THEN deductions[reason] ELSE 0

RECURSIVE TotalDeduction(_, _)
TotalDeduction(reasons, keys) ==
    IF keys = {} THEN 0
    ELSE LET k == CHOOSE x \in keys : TRUE
         IN  CategoryDeduction(k, reasons[k]) + TotalDeduction(reasons, keys \ {k})

calculate_strength_percentage(reasons) ==
    IF DOMAIN reasons = {} THEN 100
    ELSE Max(0, 100 - TotalDeduction(reasons, DOMAIN reasons))

\* Verdict with the threshold excluded.
VerdictStrict(strength_percentage) ==
    IF strength_percentage > 70
      THEN [strength |-> "STRONG", color |-> "green"]
      ELSE [strength |-> "WEAK", color |-> "red"]

\* Lines 375-380
Verdict(strength_percentage) ==
    IF strength_percentage >= 70
      THEN [strength |-> "STRONG", color |-> "green"]
      ELSE [strength |-> "WEAK", color |-> "red"]

(***************************************************************************)
(* validate_mpin.  A call either returns the 4-tuple or raises.            *)
(***************************************************************************)
Returned(strength, reasons, strength_percentage, color) ==
    [raised |-> FALSE, strength |-> strength, reasons |-> reasons,
     strength_percentage |-> strength_percentage, color |-> color]

Raised ==
    [raised |-> TRUE, strength |-> "", reasons |-> EmptyReasons,
     strength_percentage |-> 0, color |-> ""]

\* Lines 250-275: the explanations of the structural findings, in order.
PatternReasons(s) ==
    LET common_reasons == is_common_pattern(s)
    IN  [k \in 1..Len(common_reasons) |-> common_reasons[k][2]]
    \o is_arithmetic_progression(s)
    \o is_geometric_progression(s).reasons
    \o is_repetitive(s)
    \o is_ascending(s)
    \o is_descending(s)

validate_mpin(s, d_self, d_spouse, d_anniversary) ==
    IF ~isdigit(s) \/ Len(s) \notin {4, 6}
      THEN Returned("WEAK",
                    Put(EmptyReasons, "INVALID_FORMAT",
                        << <<"MPIN", "must", "be", "4", "or", "6", "digits">> >>),
                    0, "red")
    ELSE IF \E i \in 1..Len(s) : ~int_ok(s[i]) THEN Raised
    ELSE IF is_geometric_progression(s).raised THEN Raised
    ELSE LET pattern_reasons == PatternReasons(s)
             r0 == IF pattern_reasons # <<>>
                     THEN Put(EmptyReasons, "COMMON_PATTERN", pattern_reasons)
                     ELSE EmptyReasons
             r1 == CombinedLoop(r0, DateList(d_self, d_spouse, d_anniversary), 1, 2, s)
             r2 == SelfBlock(r1, d_self, s)
             r3 == SpouseBlock(r2, d_spouse, s)
             reasons == AnniversaryBlock(r3, d_anniversary, s)
             strength_percentage == calculate_strength_percentage(reasons)
             v == Verdict(strength_percentage)
         IN  Returned(v.strength, reasons, strength_percentage, v.color)

(***************************************************************************)
(* Inputs.  Three families of calls: every well-formed 4-digit PIN, the    *)
(* 6-digit PINs over the digits 0..MaxDigit6 and the strings of at most    *)
(* MaxLen characters over OddChars, each with a few combinations of dates; *)
(* the PINs made of the components of the dates, with every combination of *)
(* DateInputs; and, for every day and month, a date of birth with the PINs *)
(* that are its year, its day and month, and its day, month and year.      *)
(***************************************************************************)
MaxDigit6 == 3

MaxLen == 6

OddChars == {"1", "a", "U+0663", "U+00B2"}

Pins4 == [1..4 -> AsciiDigitSet]

Pins6 == [1..6 -> {AsciiDigits[i] : i \in 1..(MaxDigit6 + 1)}]

OddStrings == UNION {[1..n -> OddChars] : n \in 0..MaxLen}

BroadPins == Pins4 \cup Pins6 \cup OddStrings

Days == {15, 19}

Months == {6}

Years == {1990, 2015}

\* 31-06-1990 is of the form d-m-Y and is not a calendar date.
DateInputs ==
    {NoDate, TextDate, Dmy(31, 6, 1990)}
    \cup {Dmy(d, m, y) : d \in Days, m \in Months, y \in Years}

FewDates ==
    { <<NoDate, NoDate, NoDate>>,
      <<Dmy(15, 6, 1990), TextDate, Dmy(31, 6, 1990)>>,
      <<Dmy(15, 6, 1990), Dmy(19, 6, 1990), Dmy(15, 6, 2015)>> }

Components == {Pad2(x) : x \in Days \cup Months \cup {y % 100 : y \in Years}}

DatePins ==
    {a \o b : a \in Components, b \in Components}
    \cup {Pad4(y) : y \in Years}
    \cup {a \o b \o c : a \in Components, b \in Components, c \in Components}

AllDmy == {Dmy(d, m, y) : d \in 1..31, m \in 1..12, y \in Years}

OwnPins(date_str) ==
    { Pad4(date_str.y),
      Pad2(date_str.d) \o Pad2(date_str.m),
      Pad2(date_str.d) \o Pad2(date_str.m) \o Pad2(date_str.y % 100) }

NoResult ==
    [raised |-> FALSE, strength |-> "", reasons |-> EmptyReasons,
     strength_percentage |-> 0, color |-> ""]

Init ==
    /\ pc = "call"
    /\ result = NoResult
    /\ \/ /\ mpin \in BroadPins
          /\ \E c \in FewDates :
                /\ dob = c[1]
                /\ spouse_dob = c[2]
                /\ anniversary = c[3]
       \/ /\ mpin \in DatePins
          /\ dob \in DateInputs
          /\ spouse_dob \in DateInputs
          /\ anniversary \in DateInputs
       \/ /\ dob \in AllDmy
          /\ mpin \in OwnPins(dob)
          /\ spouse_dob \in {NoDate, Dmy(19, 6, 1990)}
          /\ anniversary = NoDate

\* validator.validate_mpin(mpin, dob, spouse_dob, anniversary)
ValidateMpin ==
    /\ pc = "call"
    /\ result' = validate_mpin(mpin, dob, spouse_dob, anniversary)
    /\ pc' = "done"
    /\ UNCHANGED <<mpin, dob, spouse_dob, anniversary>>

Next == ValidateMpin

Spec == Init /\ [][Next]_vars

TypeOK ==
    /\ pc \in {"call", "done"}
    /\ result.raised \in BOOLEAN
    /\ result.strength_percentage \in 0..100

(***************************************************************************)
(* Properties.                                                             *)
(***************************************************************************)
Done == pc = "done"

\* A PIN of 4 or 6 decimal digits 0-9.
ValidPin(s) == Len(s) \in {4, 6} /\ \A i \in 1..Len(s) : s[i] \in AsciiDigitSet

NoDates == dob = NoDate /\ spouse_dob = NoDate /\ anniversary = NoDate

Findings(category) ==
    IF category \in DOMAIN result.reasons THEN result.reasons[category] ELSE <<>>

\* C1: a call whose PIN is empty, holds a character other than 0-9 or has a
\* length other than 4 or 6 returns WEAK, 0, red and a finding map whose only
\* category is INVALID_FORMAT with exactly one explanation, whatever the dates.
C1_MalformedPinGivesInvalidFormat ==
    (Done /\ ~ValidPin(mpin)) =>
        /\ ~result.raised
        /\ result.strength = "WEAK"
        /\ result.strength_percentage = 0
        /\ result.color = "red"
        /\ DOMAIN result.reasons = {"INVALID_FORMAT"}
        /\ Len(result.reasons["INVALID_FORMAT"]) = 1

\* The deductions the table assigns to the structural findings of s, by the
\* family each detector reports.
StructuralFamilyDeductions(s) ==
    LET common_reasons == is_common_pattern(s)
    IN  SumSeq([k \in 1..Len(common_reasons) |-> deductions[common_reasons[k][1]]])
        + deductions["ARITHMETIC"] * Len(is_arithmetic_progression(s))
        + deductions["GEOMETRIC"] * Len(is_geometric_progression(s).reasons)
        + deductions["REPETITIVE"] * Len(is_repetitive(s))
        + deductions["ASCENDING"] * Len(is_ascending(s))
        + deductions["DESCENDING"] * Len(is_descending(s))

\* C2: the score is max(0, 100 - D), D being the sum over every finding of
\* the deduction of its family; every keypad finding (plain, doubled, corner)
\* counts 35.
C2_ScoreIsHundredMinusSumOfFamilyDeductions ==
    (Done /\ ValidPin(mpin)) =>
        result.strength_percentage =
            Max(0, 100 - (StructuralFamilyDeductions(mpin)
                          + TotalDeduction(result.reasons,
                                           DOMAIN result.reasons \ {"COMMON_PATTERN"})))

\* C3: for a valid PIN the verdict is STRONG and the colour green exactly when
\* the percentage is at least 70, and WEAK and red exactly when it is below.
C3_VerdictAndColourFollowThreshold ==
    (Done /\ ValidPin(mpin)) =>
        /\ ~result.raised
        /\ (result.strength_percentage >= 70) <=>
              (result.strength = "STRONG" /\ result.color = "green")
        /\ (result.strength_percentage < 70) <=>
              (result.strength = "WEAK" /\ result.color = "red")

\* A call that lands exactly on the threshold.
C3_Witness ==
    /\ Done
    /\ ValidPin(mpin)
    /\ result.strength_percentage = 70
    /\ result.strength = "STRONG"

\* C4: for a PIN of 4 or 6 decimal digits and any present, absent or
\* unparsable dates the call returns (does not raise) a percentage in 0..100.
C4_ValidPinReturnsPercentage ==
    (Done /\ ValidPin(mpin)) =>
        /\ ~result.raised
        /\ result.strength_percentage \in 0..100

\* A 6-digit PIN with a zero after a non-zero digit, with a parsable and two
\* unparsable dates, has returned.
C4_Witness ==
    /\ Done
    /\ Len(mpin) = 6
    /\ ValidPin(mpin)
    /\ mpin[1] # "0"
    /\ "0" \in CharSet(mpin)
    /\ strptime_ok(dob)
    /\ spouse_dob = TextDate
    /\ anniversary = Dmy(31, 6, 1990)
    /\ ~result.raised

InSeq(x, seq) == \E k \in 1..Len(seq) : seq[k] = x

\* The deductions of every category but the given one.
OtherDeductions(category) ==
    TotalDeduction(result.reasons, DOMAIN result.reasons \ {category})

ArithmeticOne == <<"Arithmetic", "progression", "with", "difference", "1">>

AscendingText == <<"Digits", "are", "in", "ascending", "order">>

Horizontal123 == <<"Horizontal", "keypad", "pattern", "(", "1", "2", "3", ")">>

Diagonal159 == <<"Diagonal", "keypad", "pattern", "(", "1", "5", "9", ")">>

Pin1234 == <<"1", "2", "3", "4">>

Pin1590 == <<"1", "5", "9", "0">>

\* C5 as stated: with no dates, PIN 1234 reports an arithmetic progression of
\* difference 1 and an ascending finding, scores 100 - 40 - 35 = 25, is WEAK.
C5_Original ==
    (Done /\ mpin = Pin1234 /\ NoDates) =>
        /\ InSeq(ArithmeticOne, Findings("COMMON_PATTERN"))
        /\ InSeq(AscendingText, Findings("COMMON_PATTERN"))
        /\ result.strength_percentage = 25
        /\ result.strength = "WEAK"

\* C5 amended: with no dates, PIN 1234 reports the horizontal keypad finding
\* (123), the arithmetic progression of difference 1 and the ascending
\* finding, and nothing else; the score is max(0, 100 - 35 - 40 - 35) = 0, WEAK.
C5_Pin1234HasThreeFindingsAndScoresZero ==
    (Done /\ mpin = Pin1234 /\ NoDates) =>
        /\ ~result.raised
        /\ DOMAIN result.reasons = {"COMMON_PATTERN"}
        /\ result.reasons["COMMON_PATTERN"] = <<Horizontal123, ArithmeticOne, AscendingText>>
        /\ result.strength_percentage = 0
        /\ result.strength = "WEAK"

C5_Witness == Done /\ mpin = Pin1234 /\ NoDates /\ result.strength = "WEAK"

SelfText(words, date_str) ==
    <<"DEMOGRAPHIC_DOB_SELF", ":">> \o words \o <<"(">> \o DateText(date_str) \o <<")">>

SelfYearMatch(date_str) == SelfText(<<"Match", "with", "your", "birth", "year">>, date_str)

SelfDateMatch(date_str) ==
    SelfText(<<"Match", "with", "your", "date", "of", "birth">>, date_str)

C6_Case ==
    /\ Done
    /\ mpin = Pad4(1990)
    /\ strptime_ok(dob)
    /\ dob.y = 1990
    /\ spouse_dob = NoDate
    /\ anniversary = NoDate

C6_Outcome ==
    /\ DOMAIN result.reasons = {"DEMOGRAPHIC_DOB_SELF"}
    /\ result.reasons["DEMOGRAPHIC_DOB_SELF"] = <<SelfYearMatch(dob)>>
    /\ result.strength_percentage = 80
    /\ result.strength = "STRONG"

\* C6 as stated: for every valid date of birth of the year 1990, alone, PIN
\* 1990 yields the exact year match, deduction 20, score 80, STRONG.
C6_Original == C6_Case => C6_Outcome

\* C6 amended: the same for every valid date of birth of the year 1990 whose
\* day is not 19 (for day 19 the pattern day + 2-digit year is 1990 too).
C6_YearMatchUnlessDayNineteen == (C6_Case /\ dob.d # 19) => C6_Outcome

C6_Witness == C6_Case /\ dob.d # 19 /\ dob.m # 6 /\ result.strength_percentage = 80

C7_Case ==
    /\ Done
    /\ strptime_ok(dob)
    /\ mpin = Pad2(dob.d) \o Pad2(dob.m)

\* C7: for a valid date of birth and the PIN day+month, DEMOGRAPHIC_DOB_SELF
\* holds exactly the exact date-of-birth match, which is charged 40, so the
\* score is at most 60 and the verdict WEAK; 15-06-1990 alone with 1506 is 60.
C7_DayMonthIsExactDateMatch ==
    C7_Case =>
        /\ Findings("DEMOGRAPHIC_DOB_SELF") = <<SelfDateMatch(dob)>>
        /\ result.strength_percentage =
              Max(0, 100 - (40 + OtherDeductions("DEMOGRAPHIC_DOB_SELF")))
        /\ result.strength_percentage <= 60
        /\ result.strength = "WEAK"
        /\ (dob = Dmy(15, 6, 1990) /\ spouse_dob = NoDate /\ anniversary = NoDate)
              => result.strength_percentage = 60

\* The date of the year 2015, whose 2-digit year 15 is a subsequence of 1506:
\* the year loop has stored a finding that the date loop replaced.
C7_Witness ==
    /\ C7_Case
    /\ dob = Dmy(15, 6, 2015)
    /\ spouse_dob = NoDate
    /\ anniversary = NoDate
    /\ result.strength_percentage = 60

Unparsable(date_str) == Truthy(date_str) /\ ~strptime_ok(date_str)

\* C8: a call with an unparsable date returns exactly what the call without
\* that date returns.
C8_UnparsableDateIsAsAbsent ==
    Done =>
        /\ Unparsable(dob) =>
              result = validate_mpin(mpin, NoDate, spouse_dob, anniversary)
        /\ Unparsable(spouse_dob) =>
              result = validate_mpin(mpin, dob, NoDate, anniversary)
        /\ Unparsable(anniversary) =>
              result = validate_mpin(mpin, dob, spouse_dob, NoDate)

\* An unparsable spouse date of the form d-m-Y between two parsable dates that
\* give a combined finding and a finding of their own.
C8_Witness ==
    /\ Done
    /\ ValidPin(mpin)
    /\ strptime_ok(dob)
    /\ spouse_dob = Dmy(31, 6, 1990)
    /\ strptime_ok(anniversary)
    /\ "DEMOGRAPHIC_COMBINED" \in DOMAIN result.reasons
    /\ "DEMOGRAPHIC_DOB_SELF" \in DOMAIN result.reasons
    /\ "DEMOGRAPHIC_DOB_SPOUSE" \notin DOMAIN result.reasons

DateArgs == <<dob, spouse_dob, anniversary>>

\* Two of the supplied dates are valid and their days, in this order, are the PIN.
DaysMakePin(i, j) ==
    /\ i # j
    /\ strptime_ok(DateArgs[i])
    /\ strptime_ok(DateArgs[j])
    /\ Pad2(DateArgs[i].d) \o Pad2(DateArgs[j].d) = mpin

C9_Case == Done /\ \E i \in 1..3 : \E j \in 1..3 : DaysMakePin(i, j)

\* C9: when the days of two supplied valid dates, in either order, make the
\* 4-digit PIN, DEMOGRAPHIC_COMBINED holds one exact match, charged 20,
\* whatever the third date.
C9_TwoDaysGiveCombinedExactMatch ==
    C9_Case =>
        /\ Len(Findings("DEMOGRAPHIC_COMBINED")) = 1
        /\ SubSeq(Findings("DEMOGRAPHIC_COMBINED")[1], 1, 6)
              = <<"DEMOGRAPHIC_COMBINED", ":", "Match", "with", "combined", "pattern">>
        /\ result.strength_percentage =
              Max(0, 100 - (20 + OtherDeductions("DEMOGRAPHIC_COMBINED")))

\* The days of the spouse's and the holder's dates, in that order, with a third
\* valid date supplied.
C9_Witness ==
    /\ Done
    /\ DaysMakePin(2, 1)
    /\ dob.d # spouse_dob.d
    /\ strptime_ok(anniversary)
    /\ result.strength_percentage > 0

\* C10: a valid PIN with a structural finding scores at most 65 and is WEAK,
\* whatever the dates; so does every PIN of identical digits, and PIN 1590,
\* whose finding is the diagonal 159 (65 with no dates).
C10_StructuralFindingCapsScore ==
    (Done /\ ValidPin(mpin)) =>
        /\ "COMMON_PATTERN" \in DOMAIN result.reasons =>
              (result.strength_percentage <= 65 /\ result.strength = "WEAK")
        /\ Cardinality(CharSet(mpin)) = 1 =>
              ("COMMON_PATTERN" \in DOMAIN result.reasons
                  /\ result.strength_percentage <= 65)
        /\ mpin = Pin1590 =>
              /\ result.reasons["COMMON_PATTERN"] = <<Diagonal159>>
              /\ result.strength_percentage <= 65
              /\ NoDates => result.strength_percentage = 65

C10_Witness ==
    /\ Done
    /\ mpin = Pin1590
    /\ NoDates
    /\ result.reasons["COMMON_PATTERN"] = <<Diagonal159>>
    /\ result.strength_percentage = 65
    /\ result.strength = "WEAK"

(***************************************************************************)
(* The texts of the findings of the date in position i of DateArgs.        *)
(***************************************************************************)
SlotCategory ==
    <<"DEMOGRAPHIC_DOB_SELF", "DEMOGRAPHIC_DOB_SPOUSE", "DEMOGRAPHIC_ANNIVERSARY">>

SlotOwner == << <<"your">>, <<"spouse's">>, <<"wedding">> >>

SlotYearNoun == << <<"birth", "year">>, <<"birth", "year">>, <<"anniversary", "year">> >>

SlotDateNoun ==
    << <<"date", "of", "birth">>, <<"date", "of", "birth">>, <<"anniversary", "date">> >>

SlotText(i, lead, noun) ==
    <<SlotCategory[i], ":">> \o lead \o SlotOwner[i] \o noun
        \o <<"(">> \o DateText(DateArgs[i]) \o <<")">>

MatchLead == <<"Match", "with">>

SubsequenceLead == <<"Contains", "subsequence", "from">>

YearExactText(i) == SlotText(i, MatchLead, SlotYearNoun[i])

YearSubsequenceText(i) == SlotText(i, SubsequenceLead, SlotYearNoun[i])

DateExactText(i) == SlotText(i, MatchLead, SlotDateNoun[i])

DateSubsequenceText(i) == SlotText(i, SubsequenceLead, SlotDateNoun[i])

SlotFindings(i) == Findings(SlotCategory[i])

\* Some pattern of the sequence is the PIN.
SomeEquals(patterns) == \E k \in 1..Len(patterns) : patterns[k] = mpin

\* Some pattern of the sequence is the PIN or a subsequence of it.
SomeMatches(patterns) ==
    \E k \in 1..Len(patterns) : patterns[k] = mpin \/ is_subsequence(patterns[k], mpin)

\* C11: for each supplied date, when a date-component pattern is the PIN the
\* category holds the exact date match, charged 40, also when another date
\* pattern is a subsequence of the PIN (the 6-digit PIN day+month+year of the
\* date of birth in particular); when a year pattern is the PIN and no date
\* pattern matches, it holds the exact year match, charged 20.
C11_ExactMatchPreferredInFamily ==
    (Done /\ ValidPin(mpin)) =>
        \A i \in 1..3 :
            /\ SomeEquals(extract_date_patterns(DateArgs[i])) =>
                  /\ SlotFindings(i) = <<DateExactText(i)>>
                  /\ result.strength_percentage =
                        Max(0, 100 - (40 + OtherDeductions(SlotCategory[i])))
            /\ (/\ SomeEquals(extract_year_patterns(DateArgs[i]))
                /\ ~SomeMatches(extract_date_patterns(DateArgs[i]))) =>
                  /\ SlotFindings(i) = <<YearExactText(i)>>
                  /\ result.strength_percentage =
                        Max(0, 100 - (20 + OtherDeductions(SlotCategory[i])))

\* The pairs of positions, in the order of the double loop.
PairOrder == << <<1, 2>>, <<1, 3>>, <<2, 3>> >>

DateLabel == <<"self", "spouse", "anniversary">>

\* The finding the loop body stores for the pair of positions p (empty when
\* a date of the pair is not supplied or no pattern of the pair matches).
PairFinding(p) ==
    IF Truthy(DateArgs[p[1]]) /\ Truthy(DateArgs[p[2]])
      THEN LET r == CombinedPair(EmptyReasons, <<DateLabel[p[1]], DateArgs[p[1]]>>,
                                 <<DateLabel[p[2]], DateArgs[p[2]]>>, mpin)
           IN  IF "DEMOGRAPHIC_COMBINED" \in DOMAIN r
                 THEN r["DEMOGRAPHIC_COMBINED"] ELSE <<>>
      ELSE <<>>

MatchingPairs == {k \in 1..3 : PairFinding(PairOrder[k]) # <<>>}

FirstOf(ks) == CHOOSE k \in ks : \A j \in ks : k <= j

LastOf(ks) == CHOOSE k \in ks : \A j \in ks : k >= j

\* C12 as stated: when more than one pair of dates matches, the finding kept
\* is that of the first matching pair.
C12_Original ==
    (Done /\ ValidPin(mpin) /\ Cardinality(MatchingPairs) > 1) =>
        Findings("DEMOGRAPHIC_COMBINED") = PairFinding(PairOrder[FirstOf(MatchingPairs)])

\* C12 amended: every pair is examined and each matching pair replaces the
\* finding, so the one kept is that of the last matching pair in the order
\* (self, spouse), (self, anniversary), (spouse, anniversary).
C12_LastMatchingPairIsKept ==
    (Done /\ ValidPin(mpin) /\ Cardinality(MatchingPairs) > 1) =>
        Findings("DEMOGRAPHIC_COMBINED") = PairFinding(PairOrder[LastOf(MatchingPairs)])

\* Three pairs match and the first and the last give different findings.
C12_Witness ==
    /\ Done
    /\ ValidPin(mpin)
    /\ Cardinality(MatchingPairs) = 3
    /\ PairFinding(PairOrder[1]) # PairFinding(PairOrder[3])
    /\ Findings("DEMOGRAPHIC_COMBINED") = PairFinding(PairOrder[3])

\* A year pattern of the date in position i is a subsequence of the PIN, none
\* is the PIN, and no date-component pattern of the date matches.
YearSubsequenceOnly(i) ==
    /\ strptime_ok(DateArgs[i])
    /\ \E k \in 1..Len(extract_year_patterns(DateArgs[i])) :
          is_subsequence(extract_year_patterns(DateArgs[i])[k], mpin)
    /\ ~SomeEquals(extract_year_patterns(DateArgs[i]))
    /\ ~SomeMatches(extract_date_patterns(DateArgs[i]))

\* C13: for the self, the spouse and the anniversary date alike, a year
\* pattern that is a subsequence of the PIN (and not the PIN), with no date
\* pattern matching, gives a year-subsequence finding in the date's category,
\* charged 5.
C13_YearSubsequenceForEachDate ==
    (Done /\ ValidPin(mpin)) =>
        \A i \in 1..3 :
            YearSubsequenceOnly(i) =>
                /\ SlotFindings(i) = <<YearSubsequenceText(i)>>
                /\ result.strength_percentage =
                      Max(0, 100 - (5 + OtherDeductions(SlotCategory[i])))

\* The year family of the date in position i matches as its loop tests it:
\* the anniversary year only when it is the PIN.
YearFamilyMatches(i) ==
    IF i = 3 THEN SomeEquals(extract_year_patterns(DateArgs[i]))
    ELSE SomeMatches(extract_year_patterns(DateArgs[i]))

BothFamiliesMatch(i) ==
    /\ strptime_ok(DateArgs[i])
    /\ YearFamilyMatches(i)
    /\ SomeMatches(extract_date_patterns(DateArgs[i]))

\* C14: each demographic category holds at most one explanation; when the
\* year family and the date family of a date both match, the category holds
\* the date finding only and only its deduction (40 exact, 10 subsequence) is
\* charged.
C14_OneFindingPerCategoryDateOverYear ==
    Done =>
        /\ \A c \in DemographicCategories : Len(Findings(c)) <= 1
        /\ \A i \in 1..3 :
              (ValidPin(mpin) /\ BothFamiliesMatch(i)) =>
                  /\ SlotFindings(i) \in {<<DateExactText(i)>>, <<DateSubsequenceText(i)>>}
                  /\ result.strength_percentage =
                        Max(0, 100 - ((IF SlotFindings(i) = <<DateExactText(i)>>
                                         THEN 40 ELSE 10)
                                      + OtherDeductions(SlotCategory[i])))

\* The year of the spouse's date is the PIN and so is its day + 2-digit year;
\* the category holds the date match alone, with a combined finding beside it.
C14_Witness ==
    /\ Done
    /\ ValidPin(mpin)
    /\ BothFamiliesMatch(2)
    /\ SomeEquals(extract_year_patterns(spouse_dob))
    /\ SlotFindings(2) = <<DateExactText(2)>>
    /\ Len(Findings("DEMOGRAPHIC_COMBINED")) = 1

\* The percentage of the call without the dates in the positions of S.
PercentageWithout(S) ==
    validate_mpin(mpin,
                  IF 1 \in S THEN NoDate ELSE dob,
                  IF 2 \in S THEN NoDate ELSE spouse_dob,
                  IF 3 \in S THEN NoDate ELSE anniversary).strength_percentage

\* C15: for a valid PIN, the call with more dates supplied (the others
\* unchanged) never returns a higher percentage than the call without them.
C15_MoreDatesNeverRaiseScore ==
    (Done /\ ValidPin(mpin)) =>
        \A S \in SUBSET (1..3) :
            (\A i \in S : Truthy(DateArgs[i])) =>
                result.strength_percentage <= PercentageWithout(S)

\* The anniversary's pair replaced the combined finding of the first pair and
\* the anniversary added a finding of its own.
C15_Witness ==
    /\ Done
    /\ ValidPin(mpin)
    /\ strptime_ok(anniversary)
    /\ PairFinding(PairOrder[1]) # <<>>
    /\ Findings("DEMOGRAPHIC_COMBINED") # PairFinding(PairOrder[1])
    /\ SlotFindings(3) # <<>>
    /\ result.strength_percentage < PercentageWithout({3})

====
